---------------------------- MODULE Spec2Model ----------------------------
(***************************************************************************)
(* Wheelbuilder Lab (prowheel_pm.py): the spoke geometry solver, the       *)
(* catalog resolver, the weight roll-up of the workshop tab, the staging   *)
(* state of the calculator, and the recipe archive of the design.          *)
(*                                                                         *)
(* Units.  Rim/hub dimensions (erd, fd, os, sp_off) are whole millimetres, *)
(* a spoke length is an integer number of TENTHS of a millimetre (Python's *)
(* round(x, 1)), a mass is an integer number of tenths of a gram.          *)
(* Text is a sequence of characters, so that strip() and lower() are real  *)
(* conversions.  An optional Python value is a record: None or Some(v).    *)
(***************************************************************************)
EXTENDS Integers, Sequences, FiniteSets, TLC

VARIABLES
    cs_args,      \* calculate_spoke: the arguments of the call
    cs_ret,       \* calculate_spoke: what the call produced
    cs_pc,        \* "call" before the call, "done" after it
    gc_records,   \* get_comp_data: the records of the catalog table
    gc_label,     \* get_comp_data: the reference looked up
    gc_ret,       \* get_comp_data: the dict returned
    gc_pc,        \* "call" before the lookup, "done" after it
    row,          \* workshop tab: the build row being rendered
    view,         \* workshop tab: the weights it shows for that row
    view_pc,      \* "render" before the row is rendered, "done" after it
    build_stage,  \* st.session_state.build_stage
    last,         \* the handler that ran last in the session
    builds_created, \* how many rows Finalize Build has created
    archive,      \* recipe archive: the stored entries
    pending,      \* recipe archive: each client's upsert in flight
    log           \* recipe archive: the upserts the store has applied

solverVars == <<cs_args, cs_ret, cs_pc>>
resolverVars == <<gc_records, gc_label, gc_ret, gc_pc>>
workshopVars == <<row, view, view_pc>>
sessionVars == <<build_stage, last, builds_created>>
archiveVars == <<archive, pending, log>>
vars == <<solverVars, resolverVars, workshopVars, sessionVars, archiveVars>>

-----------------------------------------------------------------------------
(* Python values *)

None == [none |-> TRUE, v |-> 0]
Some(x) == [none |-> FALSE, v |-> x]

\* Python truthiness of a number-or-None: `not x`
Falsy(x) == x.none \/ x.v = 0

Max(a, b) == IF a >= b THEN a ELSE b
Min(a, b) == IF a <= b THEN a ELSE b

-----------------------------------------------------------------------------
(* Arithmetic of the solver *)

\* largest k in lo..hi with k*k <= n  (math.sqrt, floor part)
RECURSIVE SqrtSearch(_, _, _)
SqrtSearch(n, lo, hi) ==
    IF lo >= hi THEN lo
    ELSE LET mid == (lo + hi + 1) \div 2
         IN  IF mid * mid <= n THEN SqrtSearch(n, mid, hi)
                               ELSE SqrtSearch(n, lo, mid - 1)

\* the search stops at 46340, the largest root of a 32-bit square
ISqrt(n) == SqrtSearch(n, 0, Min(n, 46340))

\* round(math.sqrt(q4 / 4), 1) in tenths of a millimetre, q4 >= 0:
\* the nearest integer to 5*sqrt(q4) = floor((sqrt(100*q4) + 1) / 2).
\* 100*q4 is even and (2n+1)^2 is odd, so there are no ties to break.
RoundSqrtTenths(q4) == (ISqrt(100 * q4) + 1) \div 2

\* 2*cos(d degrees) for the angles whose cosine is rational
Cos2Deg(d) ==
    LET a == d % 360
    IN  CASE a = 0 -> 2
          [] a = 60 -> 1
          [] a = 90 -> 0
          [] a = 120 -> -1
          [] a = 180 -> -2
          [] a = 240 -> -1
          [] a = 270 -> 0
          [] a = 300 -> 1

\* hole counts h for which crosses*720/h is one of those angles, crosses 0..4
ExactHoles == {4, 6, 8, 12}
Crosses == 0 .. 4

\* 4 * (r_rim^2 + r_hub^2 + os^2 - 2*r_rim*r_hub*cos(angle_rad)),
\* r_rim = erd/2, r_hub = fd/2, angle = crosses*720/holes degrees
LawOfCosines4(erd, fd, os, holes, crosses) ==
    erd * erd + fd * fd + 4 * os * os
        - erd * fd * Cos2Deg((crosses * 720) \div holes)

\* the early return with the test of the hole count left out
IncompleteInputNoHoles(erd, fd, holes) == Falsy(erd) \/ Falsy(fd)

\* the early return of calculate_spoke
IncompleteInput(erd, fd, holes) == Falsy(erd) \/ Falsy(fd) \/ Falsy(holes)

\* the constant subtracted for a J-bend spoke, 1.2 mm, in tenths
JBendDeduction == 12

Returned(early, len) == [kind |-> "value", early |-> early, len |-> len]
Raised(exc) == [kind |-> exc, early |-> FALSE, len |-> 0]

calculate_spoke(erd, fd, os, holes, crosses, is_sp, sp_off) ==
    IF IncompleteInput(erd, fd, holes) THEN Returned(TRUE, 0)
    ELSE IF crosses.none \/ holes.none THEN Raised("TypeError")
    ELSE IF holes.v = 0 THEN Raised("ZeroDivisionError")
    ELSE IF os.none THEN Raised("TypeError")
    ELSE LET l_sq4 == LawOfCosines4(erd.v, fd.v, os.v, holes.v, crosses.v)
             root == RoundSqrtTenths(Max(0, l_sq4))
         IN  IF ~is_sp THEN Returned(FALSE, root - JBendDeduction)
             ELSE IF sp_off.none THEN Raised("TypeError")
             ELSE Returned(FALSE, root + 10 * sp_off.v)

-----------------------------------------------------------------------------
(* Specification of the solver: one call on arguments drawn at the start *)

MaxDim == 3
MaxOs == 2
MaxSpOff == 1

Opt(S) == {None} \cup {Some(x) : x \in S}

SolverArgs ==
    [erd : Opt(0 .. MaxDim), fd : Opt(0 .. MaxDim), os : Opt(0 .. MaxOs),
     holes : Opt({0} \cup ExactHoles), crosses : Opt(Crosses),
     is_sp : BOOLEAN, sp_off : Opt(-MaxSpOff .. MaxSpOff)]

NotCalled == [kind |-> "none", early |-> FALSE, len |-> 0]

SolverInit ==
    /\ cs_args \in SolverArgs
    /\ cs_ret = NotCalled
    /\ cs_pc = "call"

Solve ==
    /\ cs_pc = "call"
    /\ cs_ret' = calculate_spoke(cs_args.erd, cs_args.fd, cs_args.os,
                                 cs_args.holes, cs_args.crosses,
                                 cs_args.is_sp, cs_args.sp_off)
    /\ cs_pc' = "done"
    /\ UNCHANGED <<cs_args, resolverVars, workshopVars, sessionVars,
                   archiveVars>>

-----------------------------------------------------------------------------
(* Text *)

Space == " "
Alphabet == {"a", "A", " ", "(", ")"}

LowerChar(c) == IF c = "A" THEN "a" ELSE c

\* str.lower()
Lower(s) == [i \in 1 .. Len(s) |-> LowerChar(s[i])]

RECURSIVE LStrip(_)
LStrip(s) == IF s # <<>> /\ Head(s) = Space THEN LStrip(Tail(s)) ELSE s

RECURSIVE RStrip(_)
RStrip(s) ==
    IF s # <<>> /\ s[Len(s)] = Space THEN RStrip(SubSeq(s, 1, Len(s) - 1))
    ELSE s

\* str.strip()
Strip(s) == LStrip(RStrip(s))

-----------------------------------------------------------------------------
(* Catalog tables and the resolver *)

EmptyDict == [k \in {} |-> 0]

\* dict.get(key, default)
Get(d, key, default) == IF key \in DOMAIN d THEN d[key] ELSE default

\* One DataFrame row per Airtable record: its fields, its id, and the
\* stripped label when the record has the label column.  The records of a
\* table all carry the same fields, and no field is a list.
fetch_data(records, label_col) ==
    [i \in 1 .. Len(records) |->
        LET fields == records[i].fields
            labelled == IF label_col \in DOMAIN fields
                        THEN [label |-> Strip(fields[label_col])]
                        ELSE EmptyDict
        IN  labelled @@ [id |-> records[i].id] @@ fields]

\* the rows whose stripped, lower-cased label equals the target
MatchRows(df, target) ==
    {i \in 1 .. Len(df) :
        "label" \in DOMAIN df[i] /\ Lower(Strip(df[i].label)) = target}

SetMin(S) == CHOOSE m \in S : \A n \in S : m <= n

get_comp_data(df, label) ==
    IF df = <<>> \/ label = <<>> THEN EmptyDict
    ELSE LET match == MatchRows(df, Lower(Strip(label)))
         IN  IF match = {} THEN EmptyDict ELSE df[SetMin(match)]

-----------------------------------------------------------------------------
(* Specification of the resolver: one lookup of a drawn reference in a     *)
(* drawn spokes table                                                       *)

MaxLen == 5

Strings(n) == UNION {[1 .. k -> Alphabet] : k \in 0 .. n}

SpokeRecord(id, name, weight) ==
    [id |-> id, fields |-> [spoke |-> name, weight |-> weight]]

\* the spokes tables looked into: none, one entry, two entries whose labels
\* normalise to the same text (the first one wins)
SpokeTables ==
    { <<>>,
      << SpokeRecord(1, <<"A", " ", "a">>, 52) >>,
      << SpokeRecord(1, <<" ", "a">>, 60), SpokeRecord(2, <<"A">>, 70) >> }

ResolverInit ==
    /\ gc_records \in SpokeTables
    /\ gc_label \in Strings(MaxLen)
    /\ gc_ret = EmptyDict
    /\ gc_pc = "call"

Resolve ==
    /\ gc_pc = "call"
    /\ gc_ret' = get_comp_data(fetch_data(gc_records, "spoke"), gc_label)
    /\ gc_pc' = "done"
    /\ UNCHANGED <<gc_records, gc_label, solverVars, workshopVars,
                   sessionVars, archiveVars>>

-----------------------------------------------------------------------------
(* The catalog of the workshop, in tenths of a gram and millimetres *)

RimRecords ==
    << [id |-> 1, fields |-> [rim |-> <<"A">>, erd |-> 600, holes |-> 28,
                              weight |-> 3800]],
       [id |-> 2, fields |-> [rim |-> <<"a", " ", "a">>, erd |-> 540,
                              holes |-> 24, weight |-> 4100]] >>

HubRecords ==
    << [id |-> 1, fields |-> [hub |-> <<"A">>, fd_l |-> 58, fd_r |-> 58,
                              os_l |-> 35, os_r |-> 35, sp_off_l |-> 0,
                              sp_off_r |-> 0, weight |-> 2100]],
       [id |-> 2, fields |-> [hub |-> <<"a", "a">>, fd_l |-> 40, fd_r |-> 50,
                              os_l |-> 36, os_r |-> 18, sp_off_l |-> -2,
                              sp_off_r |-> 1, weight |-> 2500]] >>

SpokeRecords == << SpokeRecord(1, <<"A">>, 52) >>

NippleRecords ==
    << [id |-> 1, fields |-> [nipple |-> <<"A">>, weight |-> 8]] >>

\* the hole count taken when the rim is not resolved
DefaultHoles == 28

\* the data frames fetched at the top of a tab
df_rims == fetch_data(RimRecords, "rim")
df_hubs == fetch_data(HubRecords, "hub")
df_spokes == fetch_data(SpokeRecords, "spoke")
df_nipples == fetch_data(NippleRecords, "nipple")

-----------------------------------------------------------------------------
(* TAB 1: the weights shown for one build row *)

\* `if row.get(key)`: the reference is there and not empty
Present(r, key) == Get(r, key, <<>>) # <<>>

\* the wheel total of the expander header; zero when the rim is unresolved
HeaderWheel(rim_data, hub_data, spoke_weight, nipple_weight) ==
    IF rim_data # EmptyDict
    THEN Get(rim_data, "weight", 0) + Get(hub_data, "weight", 0)
         + Get(rim_data, "holes", DefaultHoles) * (spoke_weight + nipple_weight)
    ELSE 0

\* the wheel total of the weight breakdown of a column
BreakdownWheel(rim_data, hub_data, spoke_weight, nipple_weight) ==
    LET rim_weight == Get(rim_data, "weight", 0)
        hub_weight == Get(hub_data, "weight", 0)
        hole_count == Get(rim_data, "holes", DefaultHoles)
        spoke_total == hole_count * spoke_weight
        nipple_total == hole_count * nipple_weight
    IN  rim_weight + hub_weight + spoke_total + nipple_total

Workshop(r) ==
    LET spoke_weight == Get(get_comp_data(df_spokes, Get(r, "spoke", <<>>)),
                            "weight", 0)
        nipple_weight == Get(get_comp_data(df_nipples, Get(r, "nipple", <<>>)),
                             "weight", 0)
        f_rim_data == get_comp_data(df_rims, Get(r, "f_rim", <<>>))
        f_hub_data == get_comp_data(df_hubs, Get(r, "f_hub", <<>>))
        r_rim_data == get_comp_data(df_rims, Get(r, "r_rim", <<>>))
        r_hub_data == get_comp_data(df_hubs, Get(r, "r_hub", <<>>))
        front_weight == IF Present(r, "f_rim")
                        THEN HeaderWheel(f_rim_data, f_hub_data,
                                         spoke_weight, nipple_weight)
                        ELSE 0
        rear_weight == IF Present(r, "r_rim")
                       THEN HeaderWheel(r_rim_data, r_hub_data,
                                        spoke_weight, nipple_weight)
                       ELSE 0
        tw == front_weight + rear_weight
    IN  [ header |-> Present(r, "f_rim") \/ Present(r, "r_rim"),
          tw |-> tw,
          front_weight |-> front_weight,
          rear_weight |-> rear_weight,
          front |-> Present(r, "f_rim"),
          front_total |-> IF Present(r, "f_rim")
                          THEN BreakdownWheel(f_rim_data, f_hub_data,
                                              spoke_weight, nipple_weight)
                          ELSE 0,
          rear |-> Present(r, "r_rim"),
          rear_total |-> IF Present(r, "r_rim")
                         THEN BreakdownWheel(r_rim_data, r_hub_data,
                                             spoke_weight, nipple_weight)
                         ELSE 0,
          metric |-> tw > 0 ]

\* the references a build row may hold: none, resolved ones, unresolved ones
RimRefs == { <<>>, <<"a">>, <<"A", " ", "a">>, <<"(">> }
HubRefs == { <<>>, <<" ", "A">>, <<"a", "A">>, <<"(">> }
PartRefs == { <<>>, <<"a">>, <<"A", " ", "(", "a", ")">> }

BuildRows ==
    [f_rim : RimRefs, f_hub : HubRefs, r_rim : RimRefs, r_hub : HubRefs,
     spoke : PartRefs, nipple : PartRefs]

NotRendered ==
    [header |-> FALSE, tw |-> 0, front_weight |-> 0, rear_weight |-> 0,
     front |-> FALSE, front_total |-> 0,
     rear |-> FALSE, rear_total |-> 0, metric |-> FALSE]

WorkshopInit ==
    /\ row \in BuildRows
    /\ view = NotRendered
    /\ view_pc = "render"

RenderWorkshop ==
    /\ view_pc = "render"
    /\ view' = Workshop(row)
    /\ view_pc' = "done"
    /\ UNCHANGED <<row, solverVars, resolverVars, sessionVars, archiveVars>>

-----------------------------------------------------------------------------
(* TAB 2 and TAB 3: the staging state of a session *)

EmptyStage ==
    [f_rim |-> <<>>, f_hub |-> <<>>, f_l |-> 0, f_r |-> 0,
     r_rim |-> <<>>, r_hub |-> <<>>, r_l |-> 0, r_r |-> 0]

\* the update with the Rear Wheel branch writing the front keys too
StageUpdateFrontOnly(stage, target, r_sel, h_sel, l_len, r_len) ==
    [stage EXCEPT !.f_rim = r_sel, !.f_hub = h_sel,
                  !.f_l = l_len, !.f_r = r_len]

\* build_stage.update(...) of the Stage Component Data button
StageUpdate(stage, target, r_sel, h_sel, l_len, r_len) ==
    IF target = "Front Wheel"
    THEN [stage EXCEPT !.f_rim = r_sel, !.f_hub = h_sel,
                       !.f_l = l_len, !.f_r = r_len]
    ELSE [stage EXCEPT !.r_rim = r_sel, !.r_hub = h_sel,
                       !.r_l = l_len, !.r_r = r_len]

\* the two lengths the calculator shows for the widgets' values
CalcLengths(r_sel, h_sel, is_sp, holes, cross) ==
    LET rd == get_comp_data(df_rims, r_sel)
        hd == get_comp_data(df_hubs, h_sel)
    IN  [ l_len |-> calculate_spoke(Some(Get(rd, "erd", 0)),
                        Some(Get(hd, "fd_l", 0)), Some(Get(hd, "os_l", 0)),
                        Some(holes), Some(cross), is_sp,
                        Some(Get(hd, "sp_off_l", 0))),
          r_len |-> calculate_spoke(Some(Get(rd, "erd", 0)),
                        Some(Get(hd, "fd_r", 0)), Some(Get(hd, "os_r", 0)),
                        Some(holes), Some(cross), is_sp,
                        Some(Get(hd, "sp_off_r", 0))) ]

Labels(df) == {df[i].label : i \in 1 .. Len(df)}
Targets == {"Front Wheel", "Rear Wheel"}
HoleInputs == {0, 12}

\* the values the widgets of the calculator can hold
Widgets ==
    [r_sel : Labels(df_rims), h_sel : Labels(df_hubs), is_sp : BOOLEAN,
     holes : HoleInputs, cross : Crosses]

\* what the calculator shows for each of them
Calculator ==
    [w \in Widgets |->
        CalcLengths(w.r_sel, w.h_sel, w.is_sp, w.holes, w.cross)]

MaxBuilds == 2

SessionInit ==
    /\ build_stage = EmptyStage
    /\ last = [op |-> "start", target |-> "", r_sel |-> <<>>, h_sel |-> <<>>,
               l_len |-> 0, r_len |-> 0]
    /\ builds_created = 0

\* a run of the script with the Stage Component Data button pressed
Stage(target, r_sel, h_sel, is_sp, holes, cross) ==
    \E c \in {Calculator[[r_sel |-> r_sel, h_sel |-> h_sel, is_sp |-> is_sp,
                            holes |-> holes, cross |-> cross]]} :
        /\ df_rims # <<>> /\ df_hubs # <<>>
        /\ c.l_len.kind = "value" /\ c.r_len.kind = "value"
        /\ build_stage' = StageUpdate(build_stage, target, r_sel, h_sel,
                                      c.l_len.len, c.r_len.len)
        /\ last' = [op |-> "Stage", target |-> target, r_sel |-> r_sel,
                    h_sel |-> h_sel, l_len |-> c.l_len.len,
                    r_len |-> c.r_len.len]
        /\ UNCHANGED <<builds_created, solverVars, resolverVars,
                       workshopVars, archiveVars>>

\* a run of the script with the Finalize Build button pressed
Finalize ==
    /\ builds_created < MaxBuilds
    /\ builds_created' = builds_created + 1
    /\ build_stage' = EmptyStage
    /\ last' = [op |-> "Finalize", target |-> "", r_sel |-> <<>>,
                h_sel |-> <<>>, l_len |-> 0, r_len |-> 0]
    /\ UNCHANGED <<solverVars, resolverVars, workshopVars, archiveVars>>

\* the same run when base.table("builds").create raises: the script stops
\* before the staging state is assigned
FinalizeError ==
    /\ last' = [op |-> "FinalizeError", target |-> "", r_sel |-> <<>>,
                h_sel |-> <<>>, l_len |-> 0, r_len |-> 0]
    /\ UNCHANGED <<build_stage, builds_created, solverVars, resolverVars,
                   workshopVars, archiveVars>>

SessionNext ==
    \/ \E target \in Targets,
          r_sel \in Labels(df_rims), h_sel \in Labels(df_hubs),
          is_sp \in BOOLEAN, holes \in HoleInputs, cross \in Crosses :
            Stage(target, r_sel, h_sel, is_sp, holes, cross)
    \/ Finalize
    \/ FinalizeError

-----------------------------------------------------------------------------
(* Recipe Archive (section 4.5 and 5 of the design): upsert by fingerprint, *)
(* applied by the store as one atomic read-modify-write                     *)

Fingerprint(rim, hub, holes, cross, is_sp) ==
    [rim |-> rim, hub |-> hub, holes |-> holes, cross |-> cross,
     is_sp |-> is_sp]

\* two recipes that differ only in the case of the rim label
Fingerprints ==
    { Fingerprint(<<"A">>, <<"A">>, 12, 3, TRUE),
      Fingerprint(<<"a">>, <<"A">>, 12, 3, TRUE) }

ArchivedLengths == { <<2900, 2920>>, <<2910, 2910>> }

Clients == {"c1", "c2"}
MaxUpserts == 3

Idle == [busy |-> FALSE, fp |-> Fingerprint(<<>>, <<>>, 0, 0, FALSE),
         left |-> 0, right |-> 0]

EntriesOf(arch, fp) == {i \in 1 .. Len(arch) : arch[i].fp = fp}

\* the upsert with the hit count written back as read on creation
upsertNoIncrement(arch, fp, left, right) ==
    IF EntriesOf(arch, fp) = {}
    THEN Append(arch, [fp |-> fp, left |-> left, right |-> right,
                       hitCount |-> 1])
    ELSE [arch EXCEPT ![SetMin(EntriesOf(arch, fp))] =
             [fp |-> fp, left |-> left, right |-> right, hitCount |-> 1]]

\* upsert(fingerprint, leftLength, rightLength): create with hitCount 1, or
\* overwrite the lengths of the entry and add one to its hitCount
upsert(arch, fp, left, right) ==
    IF EntriesOf(arch, fp) = {}
    THEN Append(arch, [fp |-> fp, left |-> left, right |-> right,
                       hitCount |-> 1])
    ELSE [arch EXCEPT ![SetMin(EntriesOf(arch, fp))] =
             [fp |-> fp, left |-> left, right |-> right,
              hitCount |-> @.hitCount + 1]]

ArchiveInit ==
    /\ archive = <<>>
    /\ pending = [c \in Clients |-> Idle]
    /\ log = <<>>

\* a client sends an upsert to the store
Request(c, fp, lengths) ==
    /\ ~pending[c].busy
    /\ Len(log) + Cardinality({d \in Clients : pending[d].busy}) < MaxUpserts
    /\ pending' = [pending EXCEPT ![c] =
                      [busy |-> TRUE, fp |-> fp, left |-> lengths[1],
                       right |-> lengths[2]]]
    /\ UNCHANGED <<archive, log, solverVars, resolverVars, workshopVars,
                   sessionVars>>

\* the store applies one upsert in flight, atomically
Apply(c) ==
    /\ pending[c].busy
    /\ archive' = upsert(archive, pending[c].fp, pending[c].left,
                         pending[c].right)
    /\ log' = Append(log, [fp |-> pending[c].fp, left |-> pending[c].left,
                           right |-> pending[c].right])
    /\ pending' = [pending EXCEPT ![c] = Idle]
    /\ UNCHANGED <<solverVars, resolverVars, workshopVars, sessionVars>>

ArchiveNext ==
    \/ \E c \in Clients, fp \in Fingerprints, lengths \in ArchivedLengths :
          Request(c, fp, lengths)
    \/ \E c \in Clients : Apply(c)

-----------------------------------------------------------------------------
(* Specifications.  Each one runs one part of the program and holds the    *)
(* state of the other parts at its initial value.                          *)

SolverIdle ==
    /\ cs_args = [erd |-> None, fd |-> None, os |-> None, holes |-> None,
                  crosses |-> None, is_sp |-> FALSE, sp_off |-> None]
    /\ cs_ret = NotCalled
    /\ cs_pc = "idle"

ResolverIdle ==
    /\ gc_records = <<>>
    /\ gc_label = <<>>
    /\ gc_ret = EmptyDict
    /\ gc_pc = "idle"

WorkshopIdle ==
    /\ row = EmptyDict
    /\ view = NotRendered
    /\ view_pc = "idle"

SolverNext == Solve
SolverStart ==
    SolverInit /\ ResolverIdle /\ WorkshopIdle /\ SessionInit /\ ArchiveInit
SolverSpec == SolverStart /\ [][SolverNext]_vars

ResolverNext == Resolve
ResolverStart ==
    SolverIdle /\ ResolverInit /\ WorkshopIdle /\ SessionInit /\ ArchiveInit
ResolverSpec == ResolverStart /\ [][ResolverNext]_vars

WorkshopNext == RenderWorkshop
WorkshopStart ==
    SolverIdle /\ ResolverIdle /\ WorkshopInit /\ SessionInit /\ ArchiveInit
WorkshopSpec == WorkshopStart /\ [][WorkshopNext]_vars

SessionStart ==
    SolverIdle /\ ResolverIdle /\ WorkshopIdle /\ SessionInit /\ ArchiveInit
SessionSpec == SessionStart /\ [][SessionNext]_vars

ArchiveStart ==
    SolverIdle /\ ResolverIdle /\ WorkshopIdle /\ SessionInit /\ ArchiveInit
ArchiveSpec == ArchiveStart /\ [][ArchiveNext]_vars

-----------------------------------------------------------------------------
(* Properties of the geometry solver, under SolverSpec *)

SolverReturned == cs_pc = "done" /\ cs_ret.kind = "value"
SolverComputed == SolverReturned /\ ~cs_ret.early

\* C1: the spoke length the solver returns is never negative, for either
\* lacing and whatever the geometry and the per-side offset are.
C1_NeverNegative == SolverReturned => cs_ret.len >= 0

\* C2: for conventional lacing the solver returns
\* sqrt(max(0, R^2 + f^2 + os^2 - 2*R*f*cos(alpha))) minus half of the
\* correction the caller passes (the seventh argument), rounded to one
\* decimal; so fd = erd, os = 0, crosses = 0, correction 0 gives 0.
C2_ConventionalFormula ==
    (SolverComputed /\ ~cs_args.is_sp /\ ~cs_args.sp_off.none) =>
        cs_ret.len =
            RoundSqrtTenths(Max(0,
                cs_args.erd.v * cs_args.erd.v + cs_args.fd.v * cs_args.fd.v
                + 4 * cs_args.os.v * cs_args.os.v
                - cs_args.erd.v * cs_args.fd.v
                    * Cos2Deg((cs_args.crosses.v * 720) \div cs_args.holes.v)))
            - 5 * cs_args.sp_off.v

\* C3: for straight-pull lacing the solver returns the tangent-circle length
\* round(sqrt(max(0, R^2 - r^2) + os^2) + offset, 1), R = erd/2, r = fd/2,
\* whatever the cross count and the hole count are.
C3_TangentCircle ==
    (SolverComputed /\ cs_args.is_sp) =>
        cs_ret.len =
            RoundSqrtTenths(
                Max(0, cs_args.erd.v * cs_args.erd.v
                       - cs_args.fd.v * cs_args.fd.v)
                + 4 * cs_args.os.v * cs_args.os.v)
            + 10 * cs_args.sp_off.v

-----------------------------------------------------------------------------
(* Properties of the resolver, under ResolverSpec *)

\* runs of spaces become one space
RECURSIVE Collapse(_)
Collapse(s) ==
    IF Len(s) < 2 THEN s
    ELSE IF s[1] = Space /\ s[2] = Space THEN Collapse(Tail(s))
    ELSE <<s[1]>> \o Collapse(Tail(s))

\* a text without its case and without its whitespace differences
Normalise(s) == Lower(Collapse(Strip(s)))

\* C5: the resolver finds an entry whenever the reference and the entry's
\* label are equal but for letter case and whitespace (leading, trailing,
\* repeated inner spaces), and the entry found is such an entry.
C5_CaseAndWhitespaceInsensitive ==
    gc_pc = "done" =>
        \A i \in 1 .. Len(gc_records) :
            Normalise(gc_records[i].fields.spoke) = Normalise(gc_label) =>
                /\ gc_ret # EmptyDict
                /\ Normalise(gc_ret.label) = Normalise(gc_label)

\* the reference is the label x followed by " (", a text that is not empty
\* and ")"
Annotated(x, ref) ==
    /\ Len(ref) >= Len(x) + 4
    /\ SubSeq(ref, 1, Len(x)) = x
    /\ ref[Len(x) + 1] = Space /\ ref[Len(x) + 2] = "("
    /\ ref[Len(ref)] = ")"

\* C6: a trailing parenthetical annotation is stripped before matching: the
\* reference "X (A)" resolves to what "X" resolves to, for every label X of
\* the catalog.
C6_ParentheticalStripped ==
    gc_pc = "done" =>
        \A x \in Labels(fetch_data(gc_records, "spoke")) :
            Annotated(x, gc_label) =>
                gc_ret = get_comp_data(fetch_data(gc_records, "spoke"), x)

-----------------------------------------------------------------------------
(* Properties of the weight roll-up, under WorkshopSpec *)

\* the mass of a part, zero when the reference does not resolve
Mass(df, ref) == Get(get_comp_data(df, ref), "weight", 0)

\* rimMass + hubMass + spokeCount * (spokeUnitMass + nippleUnitMass)
WheelTotal(rim, hub) ==
    Mass(df_rims, rim) + Mass(df_hubs, hub)
        + Get(get_comp_data(df_rims, rim), "holes", DefaultHoles)
            * (Mass(df_spokes, row.spoke) + Mass(df_nipples, row.nipple))

\* C7: for every wheel present the wheel total, in the header roll-up and in
\* the weight breakdown, is rimMass + hubMass + spokeCount * (spokeUnitMass
\* + nippleUnitMass) with every unresolved mass taken as zero; an unresolved
\* rim does not skip the wheel.
C7_WheelTotalNeverBlocked ==
    view_pc = "done" =>
        /\ view.front =>
              /\ view.front_total = WheelTotal(row.f_rim, row.f_hub)
              /\ view.front_weight = WheelTotal(row.f_rim, row.f_hub)
        /\ view.rear =>
              /\ view.rear_total = WheelTotal(row.r_rim, row.r_hub)
              /\ view.rear_weight = WheelTotal(row.r_rim, row.r_hub)

\* C8: the wheelset total is the sum of the totals shown for the wheels
\* present; an absent wheel adds nothing.
C8_WheelsetIsSumOfWheels ==
    view_pc = "done" =>
        view.tw = (IF view.front THEN view.front_total ELSE 0)
                  + (IF view.rear THEN view.rear_total ELSE 0)

-----------------------------------------------------------------------------
(* Properties of the recipe archive, under ArchiveSpec *)

UpsertsOf(fp) == {i \in 1 .. Len(log) : log[i].fp = fp}
SetMax(S) == CHOOSE m \in S : \A n \in S : m >= n

\* C9: after any upserts, concurrent ones included, the archive holds one
\* entry per fingerprint upserted, whose hitCount is the number of upserts
\* made for it and whose lengths are those of the latest one.
C9_OneEntryPerFingerprint ==
    /\ \A i \in 1 .. Len(archive) : UpsertsOf(archive[i].fp) # {}
    /\ \A fp \in Fingerprints :
          UpsertsOf(fp) # {} =>
              /\ Cardinality(EntriesOf(archive, fp)) = 1
              /\ \A i \in EntriesOf(archive, fp) :
                    /\ archive[i].hitCount = Cardinality(UpsertsOf(fp))
                    /\ archive[i].left = log[SetMax(UpsertsOf(fp))].left
                    /\ archive[i].right = log[SetMax(UpsertsOf(fp))].right

\* C9 happens: two upserts of one fingerprint with different lengths were
\* applied while a third one for it was in flight
C9_Witness ==
    /\ Len(log) = 2 /\ log[1].fp = log[2].fp /\ log[1].left # log[2].left
    /\ Len(archive) = 1 /\ archive[1].hitCount = 2
    /\ \E c \in Clients : pending[c].busy /\ pending[c].fp = log[1].fp

-----------------------------------------------------------------------------
(* Properties of the staging state, under SessionSpec *)

FrontKept ==
    /\ build_stage'.f_rim = build_stage.f_rim
    /\ build_stage'.f_hub = build_stage.f_hub
    /\ build_stage'.f_l = build_stage.f_l
    /\ build_stage'.f_r = build_stage.f_r

RearKept ==
    /\ build_stage'.r_rim = build_stage.r_rim
    /\ build_stage'.r_hub = build_stage.r_hub
    /\ build_stage'.r_l = build_stage.r_l
    /\ build_stage'.r_r = build_stage.r_r

\* C10: staging for the Front Wheel writes the rim, the hub and the two
\* lengths to the four front fields and keeps the four rear fields, staging
\* for the Rear Wheel does the converse, and the only other change to
\* build_stage is Finalize Build, which resets the eight fields.
C10_StagingFrame ==
    [][ /\ (last'.op = "Stage" /\ last'.target = "Front Wheel") =>
              /\ build_stage'.f_rim = last'.r_sel
              /\ build_stage'.f_hub = last'.h_sel
              /\ build_stage'.f_l = last'.l_len
              /\ build_stage'.f_r = last'.r_len
              /\ RearKept
        /\ (last'.op = "Stage" /\ last'.target = "Rear Wheel") =>
              /\ build_stage'.r_rim = last'.r_sel
              /\ build_stage'.r_hub = last'.h_sel
              /\ build_stage'.r_l = last'.l_len
              /\ build_stage'.r_r = last'.r_len
              /\ FrontKept
        /\ last'.op = "Finalize" => build_stage' = EmptyStage
        /\ last'.op \notin {"Stage", "Finalize"} => build_stage' = build_stage
      ]_vars

\* C10 happens: the front wheel was staged last and the rear fields still
\* hold a different, earlier staging
C10_Witness ==
    /\ last.op = "Stage" /\ last.target = "Front Wheel"
    /\ build_stage.f_rim = last.r_sel /\ build_stage.f_l = last.l_len
    /\ build_stage.r_rim # <<>> /\ build_stage.r_rim # build_stage.f_rim
    /\ build_stage.r_l # build_stage.f_l /\ build_stage.r_l > 0
    /\ builds_created > 0

=============================================================================
